---------------------------- MODULE Spec2Model ----------------------------
(***************************************************************************)
(* Model of src/pow/lib.rs: the 32-byte LHash value type, its slice and    *)
(* word constructors, its little-endian word views, its hexadecimal codec  *)
(* (through faster_hex) and its StdHash / PartialEq implementations.       *)
(*                                                                         *)
(* Representation choices:                                                 *)
(*  - a byte is an integer 0..255, a byte array or slice is a sequence;    *)
(*  - LHash is a tuple struct with one field, so LHash(b) is <<b>> and     *)
(*    self.0 is self[1];                                                   *)
(*  - a &str is a sequence of Unicode scalar values; str::as_bytes is its  *)
(*    UTF-8 encoding and str::len counts those bytes;                      *)
(*  - a u64 is its eight base-256 digits, most significant first (the      *)
(*    model checker's integers are 32 bits wide, a u64 does not fit).      *)
(*    Digit(w, k) is the coefficient of 256^k.                             *)
(***************************************************************************)
EXTENDS Integers, Sequences, FiniteSets

HASH_SIZE == 32

WORD_BYTES == 8

\* Longest excess over the exact length (32 bytes, 64 characters) of an input.
MaxExtra == 2

\* Longest log of earlier updates in a hasher that is handed to hash().
MaxPrior == 1

\* Longest update log a hasher may hold; a hasher this full is not reused.
MaxLog == 9

(***************************************************************************)
(* Results                                                                 *)
(***************************************************************************)
Ok(v) == [tag |-> "Ok", val |-> v]

Err(e) == [tag |-> "Err", err |-> e]

\* The value of a call that cannot fail.
Ret(v) == [tag |-> "Ret", val |-> v]

\* expect() / unwrap() on a failure: the thread panics with this message.
Panic(msg) == [tag |-> "Panic", msg |-> msg]

TryFromSliceError == [kind |-> "TryFromSliceError"]

InvalidChar == [kind |-> "InvalidChar"]

InvalidLength(len) == [kind |-> "InvalidLength", len |-> len]

(***************************************************************************)
(* u64 and its byte conversions                                            *)
(***************************************************************************)
\* The literal 0u64.
U64Zero == [k \in 1..WORD_BYTES |-> 0]

\* The coefficient of 256^k in the word w.
Digit(w, k) == w[WORD_BYTES - k]

\* from_le_bytes replaced by from_be_bytes: byte 0 becomes the top digit.
from_be_bytes(chunk) == [d \in 1..WORD_BYTES |-> chunk[d]]

\* u64::from_le_bytes: byte k of the chunk is the coefficient of 256^k.
from_le_bytes(chunk) == [d \in 1..WORD_BYTES |-> chunk[WORD_BYTES + 1 - d]]

\* to_le_bytes replaced by to_be_bytes: the top digit comes first.
to_be_bytes(word) == [k \in 1..WORD_BYTES |-> word[k]]

\* u64::to_le_bytes: byte k of the result is the coefficient of 256^k.
to_le_bytes(word) == [k \in 1..WORD_BYTES |-> word[WORD_BYTES + 1 - k]]

\* slice::chunks_exact(n): the whole chunks of n elements, a remainder dropped.
chunks_exact(s, n) == [c \in 1..(Len(s) \div n) |-> SubSeq(s, (c - 1) * n + 1, c * n)]

(***************************************************************************)
(* LHash: construction                                                     *)
(***************************************************************************)
LHash(bytes) == <<bytes>>

\* A conversion that takes the first HASH_SIZE bytes of a longer slice.
array_try_from_prefix(bytes) ==
  IF Len(bytes) >= HASH_SIZE THEN Ok(SubSeq(bytes, 1, HASH_SIZE)) ELSE Err(TryFromSliceError)

\* <[u8; HASH_SIZE]>::try_from(&[u8])
array_try_from(bytes) == IF Len(bytes) = HASH_SIZE THEN Ok(bytes) ELSE Err(TryFromSliceError)

from_bytes(bytes) == LHash(bytes)

as_bytes(self) == self[1]

from_slice(bytes) ==
  LET r == array_try_from(bytes)
  IN  IF r.tag = "Ok" THEN Ret(LHash(r.val))
      ELSE Panic("Slice must have the length of Hash")

try_from_slice(bytes) ==
  LET r == array_try_from(bytes)
  IN  IF r.tag = "Ok" THEN Ok(LHash(r.val)) ELSE Err(r.err)

\* impl TryFrom<&[u8]> for LHash
try_from(value) == try_from_slice(value)

(***************************************************************************)
(* LHash: little-endian word views                                         *)
(***************************************************************************)
\* The items the iterator yields, in order, each time it is started.
iter_le_u64(self) ==
  LET chunks == chunks_exact(self[1], WORD_BYTES)
  IN  [c \in 1..Len(chunks) |-> from_le_bytes(chunks[c])]

to_le_u64(self) ==
  LET it == iter_le_u64(self)
  IN  [i \in 1..4 |-> IF i <= Len(it) THEN it[i] ELSE U64Zero]

from_le_u64(arr) ==
  LET n == IF HASH_SIZE \div WORD_BYTES < Len(arr) THEN HASH_SIZE \div WORD_BYTES ELSE Len(arr)
      ret == [j \in 1..HASH_SIZE |->
                LET c == ((j - 1) \div WORD_BYTES) + 1
                IN  IF c <= n THEN to_le_bytes(arr[c])[((j - 1) % WORD_BYTES) + 1] ELSE 0]
  IN  LHash(ret)

\* The word put in the first word-slot instead of the last.
from_u64_word_first(word) == from_le_u64(<<word, U64Zero, U64Zero, U64Zero>>)

from_u64_word(word) == from_le_u64(<<U64Zero, U64Zero, U64Zero, word>>)

\* impl From<u64> for LHash
from_u64(word) == from_u64_word(word)

(***************************************************************************)
(* StdHash and PartialEq                                                   *)
(***************************************************************************)
\* One update of a hasher: the method called and its argument.
write_u64(x) == [fn |-> "write_u64", val |-> x]

\* <u64 as Hash>::hash(x, state) is state.write_u64(x).
u64_hash(x, state) == Append(state, write_u64(x))

RECURSIVE for_each_hash(_, _)
for_each_hash(items, state) ==
  IF items = <<>> THEN state
  ELSE for_each_hash(Tail(items), u64_hash(Head(items), state))

\* A hash that feeds the hasher the first word only.
hash_first_word(self, state) == u64_hash(Head(iter_le_u64(self)), state)

\* The hasher after self.hash(&mut state); a hasher is the log of its updates.
hash(self, state) == for_each_hash(iter_le_u64(self), state)

\* An equality that compares the first word only.
eq_first_word(self, other) == \A i \in 1..WORD_BYTES : self[1][i] = other[1][i]

eq(self, other) == \A i \in 1..HASH_SIZE : self[1][i] = other[1][i]

(***************************************************************************)
(* Hexadecimal codec (faster_hex) and strings                              *)
(***************************************************************************)
\* "0123456789abcdef"
HEX_TABLE == <<48, 49, 50, 51, 52, 53, 54, 55, 56, 57, 97, 98, 99, 100, 101, 102>>

\* An unhex whose upper-case branch forgets the offset of ten.
unhex_upper_off(c) ==
  IF c >= 48 /\ c <= 57 THEN c - 48
  ELSE IF c >= 97 /\ c <= 102 THEN c - 87
  ELSE IF c >= 65 /\ c <= 70 THEN c - 65
  ELSE 255

\* The nibble of an ASCII hex digit, 255 for any other byte.
unhex(c) ==
  IF c >= 48 /\ c <= 57 THEN c - 48
  ELSE IF c >= 97 /\ c <= 102 THEN c - 87
  ELSE IF c >= 65 /\ c <= 70 THEN c - 55
  ELSE 255

hex_check(src) == \A i \in 1..Len(src) : unhex(src[i]) # 255

\* An encoder that writes the low nibble of each byte first.
hex_encode_swapped(src, dstLen) ==
  IF dstLen # 2 * Len(src) THEN Err(InvalidLength(2 * Len(src)))
  ELSE Ok([j \in 1..dstLen |->
             LET b == src[(j + 1) \div 2]
             IN  IF (j % 2) = 1 THEN HEX_TABLE[(b % 16) + 1] ELSE HEX_TABLE[(b \div 16) + 1]])

hex_encode(src, dstLen) ==
  IF dstLen # 2 * Len(src) THEN Err(InvalidLength(2 * Len(src)))
  ELSE Ok([j \in 1..dstLen |->
             LET b == src[(j + 1) \div 2]
             IN  IF (j % 2) = 1 THEN HEX_TABLE[(b \div 16) + 1] ELSE HEX_TABLE[(b % 16) + 1]])

\* A decoder that checks the length but not the characters.
hex_decode_no_check(src, dstLen) ==
  LET len == dstLen * 2
  IN  IF Len(src) < len \/ (Len(src) % 2) # 0 THEN Err(InvalidLength(len))
      ELSE Ok([i \in 1..dstLen |-> unhex(src[2 * i - 1]) * 16 + unhex(src[2 * i])])

hex_decode(src, dstLen) ==
  LET len == dstLen * 2
  IN  IF Len(src) < len \/ (Len(src) % 2) # 0 THEN Err(InvalidLength(len))
      ELSE IF ~hex_check(src) THEN Err(InvalidChar)
      ELSE Ok([i \in 1..dstLen |-> unhex(src[2 * i - 1]) * 16 + unhex(src[2 * i])])

\* The UTF-8 encoding of one scalar value below U+10000.
utf8(c) ==
  IF c < 128 THEN <<c>>
  ELSE IF c < 2048 THEN <<192 + (c \div 64), 128 + (c % 64)>>
  ELSE <<224 + (c \div 4096), 128 + ((c \div 64) % 64), 128 + (c % 64)>>

RECURSIVE str_as_bytes(_)
\* str::as_bytes
str_as_bytes(s) == IF s = <<>> THEN <<>> ELSE utf8(Head(s)) \o str_as_bytes(Tail(s))

\* str::from_utf8_unchecked on ASCII bytes: one character per byte.
from_utf8_unchecked(bytes) == [i \in 1..Len(bytes) |-> bytes[i]]

\* impl Display for LHash, through ToString
to_string(self) ==
  LET r == hex_encode(self[1], HASH_SIZE * 2)
  IN  IF r.tag = "Ok" THEN Ret(from_utf8_unchecked(r.val))
      ELSE Panic("The output is exactly twice the size of the input")

to_hex(self) == to_string(self)

from_str(hash_str) ==
  LET r == hex_decode(str_as_bytes(hash_str), HASH_SIZE)
  IN  IF r.tag = "Ok" THEN Ok(LHash(r.val)) ELSE Err(r.err)

from_hex(hex_str) == from_str(hex_str)

ZERO_HASH == LHash([i \in 1..HASH_SIZE |-> 0])

EMPTY_MUHASH ==
  from_bytes(<<84, 78, 179, 20, 44, 0, 15, 10, 210, 199, 106, 196, 31, 66, 34, 171,
               186, 186, 190, 216, 48, 238, 175, 238, 75, 109, 197, 107, 82, 213, 202, 192>>)


(***************************************************************************)
(* Inputs of the calls                                                     *)
(***************************************************************************)
SetAt(s, p, x) == [s EXCEPT ![p] = x]

\* The first n elements of s continued cyclically.
Resize(s, n) == [i \in 1..n |-> s[((i - 1) % Len(s)) + 1]]

ByteSamples == {0, 1, 127, 128, 255}

BaseBytes == {as_bytes(ZERO_HASH), as_bytes(EMPTY_MUHASH)}

ByteArrays ==
  BaseBytes \cup {SetAt(b, p, x) : b \in BaseBytes, p \in 1..HASH_SIZE, x \in ByteSamples}

SliceInputs ==
  ByteArrays \cup {Resize(b, n) : b \in BaseBytes, n \in 0..(HASH_SIZE + MaxExtra)}

HashInputs == {LHash(b) : b \in ByteArrays}

BaseHashes == {ZERO_HASH, EMPTY_MUHASH}

\* Byte positions at the edges of the four words.
EdgePositions == {1, 8, 9, 16, 17, 24, 25, 32}

\* The values self is compared with: itself, the constants, and values that
\* differ from it in exactly one byte.
Others(self) ==
  {self} \cup BaseHashes
    \cup {LHash(SetAt(self[1], p, 255 - self[1][p])) : p \in EdgePositions}

\* hash_str of tests::test_hash_basics
hash_str ==
  <<56, 101, 52, 48, 97, 102, 48, 50, 50, 54, 53, 51, 54, 48, 100, 53,
    57, 102, 52, 101, 99, 102, 57, 97, 101, 57, 101, 98, 102, 56, 102, 48,
    48, 97, 51, 49, 49, 56, 52, 48, 56, 102, 53, 97, 57, 99, 100, 99,
    98, 99, 99, 57, 99, 48, 102, 57, 51, 54, 52, 50, 102, 51, 97, 102>>

\* 64 times '0'
zero_str == [i \in 1..(HASH_SIZE * 2) |-> 48]

BaseStrs == {hash_str, zero_str}

\* '!' '/' '0' '9' ':' '@' 'A' 'F' 'G' '`' 'a' 'f' 'g', U+00E9 and U+20AC
CharSamples == {33, 47, 48, 57, 58, 64, 65, 70, 71, 96, 97, 102, 103, 233, 8364}

IsLowerHexLetter(c) == c >= 97 /\ c <= 102

IsUpperHexLetter(c) == c >= 65 /\ c <= 70

IsHexDigit(c) == (c >= 48 /\ c <= 57) \/ IsLowerHexLetter(c) \/ IsUpperHexLetter(c)

IsLowerHexDigit(c) == (c >= 48 /\ c <= 57) \/ IsLowerHexLetter(c)

UpperChar(c) == IF IsLowerHexLetter(c) THEN c - 32 ELSE c

LowerChar(c) == IF IsUpperHexLetter(c) THEN c + 32 ELSE c

Lower(s) == [i \in 1..Len(s) |-> LowerChar(s[i])]

\* The same digits in other casings: all upper, alternating, one letter upper.
CaseVariants(s) ==
  {[i \in 1..Len(s) |-> UpperChar(s[i])],
   [i \in 1..Len(s) |-> IF (i % 2) = 0 THEN UpperChar(s[i]) ELSE s[i]]}
    \cup {SetAt(s, p, UpperChar(s[p])) : p \in 1..Len(s)}

\* Strings of every length from 0 to 64 + MaxExtra, whole or with one sampled
\* character at either end.
ResizedStrs ==
  LET R == {Resize(s, n) : s \in BaseStrs, n \in 0..(HASH_SIZE * 2 + MaxExtra)}
  IN  R \cup {SetAt(r, p, c) : r \in R \ {<<>>}, p \in {1}, c \in CharSamples}
        \cup {SetAt(r, Len(r), c) : r \in R \ {<<>>}, c \in CharSamples}

StrInputs ==
  BaseStrs
    \cup UNION {CaseVariants(s) : s \in BaseStrs}
    \cup {SetAt(s, p, c) : s \in BaseStrs, p \in 1..(HASH_SIZE * 2), c \in CharSamples}
    \cup ResizedStrs

WordSamples ==
  {U64Zero,
   <<0, 0, 0, 0, 0, 0, 0, 1>>,
   <<1, 2, 3, 4, 5, 6, 7, 8>>,
   <<128, 0, 0, 0, 0, 0, 0, 0>>,
   <<255, 255, 255, 255, 255, 255, 255, 255>>}

WordArrays == [1..4 -> WordSamples]

\* Updates a hasher may have received before an LHash is hashed into it.
PriorUpdates == {write_u64(<<0, 0, 0, 0, 0, 0, 0, 1>>), [fn |-> "write", val |-> <<1, 2>>]}

HasherInputs == UNION {[1..n -> PriorUpdates] : n \in 0..MaxPrior}

(***************************************************************************)
(* State: the latest call (operation, argument, result, kind of the        *)
(* result) and, when its argument was the result of the call before it,    *)
(* that call.                                                              *)
(***************************************************************************)
VARIABLES call, prev

vars == <<call, prev>>

NoCall == [op |-> "none", arg |-> <<>>, ret |-> Ret(<<>>), out |-> "unit"]

\* The value the latest call returned, when it is of the kind asked for.
Produced(kind) ==
  IF call.out = kind /\ call.ret.tag \in {"Ok", "Ret"} THEN {call.ret.val} ELSE {}

Do(op, arg, ret, out, chained) ==
  /\ call' = [op |-> op, arg |-> arg, ret |-> ret, out |-> out]
  /\ prev' = IF chained THEN call ELSE NoCall

\* A run is one call on a sampled input followed by calls on what the calls
\* before them have returned: sampled inputs are offered to the first call only.
Fresh(inputs) == IF call.op = "none" THEN inputs ELSE {}

HashArgs == Fresh(HashInputs) \cup Produced("hash")

Init == call = NoCall /\ prev = NoCall

FromBytes ==
  \E bytes \in Fresh(ByteArrays) \cup Produced("bytes") :
    /\ Len(bytes) = HASH_SIZE
    /\ Do("from_bytes", bytes, Ret(from_bytes(bytes)), "hash", bytes \in Produced("bytes"))

AsBytes ==
  \E self \in HashArgs :
    Do("as_bytes", self, Ret(as_bytes(self)), "bytes", self \in Produced("hash"))

FromSlice ==
  \E bytes \in Fresh(SliceInputs) \cup Produced("bytes") :
    Do("from_slice", bytes, from_slice(bytes), "hash", bytes \in Produced("bytes"))

TryFromSlice ==
  \E bytes \in Fresh(SliceInputs) \cup Produced("bytes") :
    Do("try_from_slice", bytes, try_from_slice(bytes), "hash", bytes \in Produced("bytes"))

TryFrom ==
  \E value \in Fresh(SliceInputs) \cup Produced("bytes") :
    Do("try_from", value, try_from(value), "hash", value \in Produced("bytes"))

ToLeU64 ==
  \E self \in HashArgs :
    Do("to_le_u64", self, Ret(to_le_u64(self)), "words", self \in Produced("hash"))

IterLeU64 ==
  \E self \in HashArgs :
    Do("iter_le_u64", self, Ret(iter_le_u64(self)), "iter", self \in Produced("hash"))

FromLeU64 ==
  \E arr \in Fresh(WordArrays) \cup Produced("words") :
    Do("from_le_u64", arr, Ret(from_le_u64(arr)), "hash", arr \in Produced("words"))

FromU64Word ==
  \E word \in Fresh(WordSamples) :
    Do("from_u64_word", word, Ret(from_u64_word(word)), "hash", FALSE)

FromU64 ==
  \E word \in Fresh(WordSamples) :
    Do("from", word, Ret(from_u64(word)), "hash", FALSE)

\* self.hash(&mut state) with a hasher of the caller
Hash ==
  \E self \in HashArgs, state \in HasherInputs :
    Do("hash", [self |-> self, state |-> state], Ret(hash(self, state)), "hasher",
       self \in Produced("hash"))

\* self.hash(&mut state) with the hasher the call before it has left
HashAgain ==
  \E state \in Produced("hasher") :
    /\ Len(state) + (HASH_SIZE \div WORD_BYTES) <= MaxLog
    /\ \E self \in BaseHashes \cup {call.arg.self} :
         Do("hash", [self |-> self, state |-> state], Ret(hash(self, state)), "hasher", TRUE)

Eq ==
  \E self \in HashArgs :
    \E other \in Others(self) :
      Do("eq", [self |-> self, other |-> other], Ret(eq(self, other)), "bool",
         self \in Produced("hash"))

ToString ==
  \E self \in HashArgs :
    Do("to_string", self, to_string(self), "str", self \in Produced("hash"))

ToHex ==
  \E self \in HashArgs :
    Do("to_hex", self, to_hex(self), "str", self \in Produced("hash"))

FromStr ==
  \E s \in Fresh(StrInputs) \cup Produced("str") :
    Do("from_str", s, from_str(s), "hash", s \in Produced("str"))

FromHex ==
  \E s \in Fresh(StrInputs) \cup Produced("str") :
    Do("from_hex", s, from_hex(s), "hash", s \in Produced("str"))

Next ==
  \/ FromBytes
  \/ AsBytes
  \/ FromSlice
  \/ TryFromSlice
  \/ TryFrom
  \/ ToLeU64
  \/ IterLeU64
  \/ FromLeU64
  \/ FromU64Word
  \/ FromU64
  \/ Hash
  \/ HashAgain
  \/ Eq
  \/ ToString
  \/ ToHex
  \/ FromStr
  \/ FromHex

Spec == Init /\ [][Next]_vars

(***************************************************************************)
(* Properties                                                              *)
(***************************************************************************)
IsFromStr == call.op \in {"from_str", "from_hex"}

IsToString == call.op \in {"to_string", "to_hex"}

\* The number of bytes of a string, as str::len counts it.
StrLen(s) == Len(str_as_bytes(s))

HasNonHex(s) == \E i \in 1..Len(s) : ~IsHexDigit(s[i])

\* C1: whenever eq finds two values equal (and whenever their as_bytes()
\* agree), hash feeds any hasher the same sequence of updates for both.
C1_EqHashCoherence ==
  call.op = "eq" =>
    LET x == call.arg.self
        y == call.arg.other
    IN  (call.ret.val \/ as_bytes(x) = as_bytes(y)) =>
          \A state \in HasherInputs : hash(x, state) = hash(y, state)

C1_Witness ==
  /\ call.op = "eq"
  /\ call.ret.val
  /\ prev.op = "from_str"
  /\ call.arg.self # ZERO_HASH

\* C2: hash appends exactly four write_u64 updates to the hasher, and the
\* i-th carries the little-endian word of bytes [8i, 8i+8) of the value.
C2_FastHashContract ==
  call.op = "hash" =>
    LET before == call.arg.state
        after == call.ret.val
        bytes == as_bytes(call.arg.self)
        n == Len(before)
    IN  /\ Len(after) = n + 4
        /\ SubSeq(after, 1, n) = before
        /\ \A i \in 0..3 :
             /\ after[n + i + 1].fn = "write_u64"
             /\ \A k \in 0..7 : Digit(after[n + i + 1].val, k) = bytes[8 * i + k + 1]

C2_Witness ==
  /\ call.op = "hash"
  /\ call.arg.self = EMPTY_MUHASH
  /\ Len(call.arg.state) = 1
  /\ Len(call.ret.val) = 5

\* C3: decoding the text of a value gives the value back, encoding what a
\* 64-character lowercase hexadecimal string decodes to gives the string
\* back, and ZERO_HASH is written as 64 times '0'.
C3_HexRoundTrip ==
  /\ (IsFromStr /\ prev.op \in {"to_string", "to_hex"}) => call.ret = Ok(prev.arg)
  /\ (IsFromStr /\ Len(call.arg) = 64 /\ \A i \in 1..64 : IsLowerHexDigit(call.arg[i])) =>
       /\ call.ret.tag = "Ok"
       /\ to_string(call.ret.val) = Ret(call.arg)
       /\ to_hex(call.ret.val) = Ret(call.arg)
  /\ (IsToString /\ prev.op \in {"from_str", "from_hex"}
        /\ \A i \in 1..Len(prev.arg) : IsLowerHexDigit(prev.arg[i])
        /\ Len(prev.arg) = 64) => call.ret = Ret(prev.arg)
  /\ (IsToString /\ call.arg = ZERO_HASH) => call.ret = Ret(zero_str)
  /\ (IsFromStr /\ call.arg = zero_str) => call.ret = Ok(ZERO_HASH)

C3_Witness ==
  /\ call.op = "to_string"
  /\ prev.op = "from_str"
  /\ prev.arg = hash_str
  /\ call.ret = Ret(hash_str)

\* C4: decoding a string whose length is not 64 returns InvalidLength(64).
C4_LengthErrorStability ==
  (IsFromStr /\ StrLen(call.arg) # 64) => call.ret = Err(InvalidLength(64))

\* C5 as stated: decoding a 64-character string with a character outside
\* [0-9a-fA-F] returns InvalidChar.
C5_AsStated ==
  (IsFromStr /\ Len(call.arg) = 64 /\ HasNonHex(call.arg)) => call.ret = Err(InvalidChar)

\* C5: a 64-character string with a character outside [0-9a-fA-F] never
\* decodes; the error is InvalidChar when the string is 64 bytes long (and
\* whenever its byte length is even), InvalidLength(64) when it is odd.
C5_InvalidCharRejection ==
  (IsFromStr /\ Len(call.arg) = 64 /\ HasNonHex(call.arg)) =>
    /\ call.ret.tag = "Err"
    /\ (StrLen(call.arg) = 64 => call.ret = Err(InvalidChar))
    /\ call.ret = IF (StrLen(call.arg) % 2) = 0 THEN Err(InvalidChar)
                  ELSE Err(InvalidLength(64))

C5_Witness ==
  /\ call.op = "from_str"
  /\ Len(call.arg) = 64
  /\ call.arg[40] = 103
  /\ call.ret = Err(InvalidChar)

\* C6: a 64-digit hexadecimal string decodes to the value its lowercase form
\* decodes to, and that value is written as the lowercase form.
C6_CaseInsensitiveDecode ==
  (IsFromStr /\ Len(call.arg) = 64 /\ ~HasNonHex(call.arg)) =>
    /\ call.ret.tag = "Ok"
    /\ call.ret = from_str(Lower(call.arg))
    /\ to_string(call.ret.val) = Ret(Lower(call.arg))

C6_Witness ==
  /\ call.op = "from_str"
  /\ call.arg # Lower(call.arg)
  /\ Lower(call.arg) = hash_str
  /\ call.ret.tag = "Ok"

\* C7: on a slice of 32 bytes from_slice, try_from_slice and try_from return
\* the same value, whose bytes are the slice; on any other length
\* try_from_slice and try_from return the length error.
C7_SliceConstructorsAgree ==
  /\ (call.op \in {"try_from_slice", "try_from"} /\ Len(call.arg) = 32) =>
       /\ call.ret.tag = "Ok"
       /\ as_bytes(call.ret.val) = call.arg
       /\ from_slice(call.arg) = Ret(call.ret.val)
  /\ (call.op = "from_slice" /\ Len(call.arg) = 32) =>
       /\ call.ret.tag = "Ret"
       /\ as_bytes(call.ret.val) = call.arg
       /\ try_from_slice(call.arg) = Ok(call.ret.val)
  /\ (call.op \in {"try_from_slice", "try_from"} /\ Len(call.arg) # 32) =>
       call.ret = Err(TryFromSliceError)

C7_Witness ==
  /\ call.op = "try_from_slice"
  /\ call.arg = as_bytes(EMPTY_MUHASH)
  /\ call.ret = Ok(EMPTY_MUHASH)

\* C8: from_u64_word(w) and From<u64> give the value whose words are
\* [0, 0, 0, w]: bytes 0..23 are zero, bytes 24..31 are w, little-endian.
C8_WordPlacement ==
  call.op \in {"from_u64_word", "from"} =>
    LET w == call.arg
        bytes == as_bytes(call.ret.val)
    IN  /\ to_le_u64(call.ret.val) = <<U64Zero, U64Zero, U64Zero, w>>
        /\ Len(bytes) = 32
        /\ \A j \in 1..24 : bytes[j] = 0
        /\ \A k \in 0..7 : bytes[25 + k] = Digit(w, k)

C8_Witness ==
  /\ call.op = "from_u64_word"
  /\ call.arg = <<1, 2, 3, 4, 5, 6, 7, 8>>
  /\ as_bytes(call.ret.val)[25] = 8

\* C9: from_le_u64 applied to the words to_le_u64 returned gives the value
\* back.
C9_WordRoundTrip ==
  (call.op = "from_le_u64" /\ prev.op = "to_le_u64") => call.ret = Ret(prev.arg)

C9_Witness ==
  /\ call.op = "from_le_u64"
  /\ prev.op = "to_le_u64"
  /\ prev.arg = EMPTY_MUHASH
  /\ call.ret = Ret(EMPTY_MUHASH)

\* C10: word i of to_le_u64 is the little-endian integer of bytes
\* [8i, 8i+8), and iter_le_u64 yields these four words in this order.
C10_WordViewLayout ==
  /\ call.op \in {"to_le_u64", "iter_le_u64"} =>
       LET bytes == as_bytes(call.arg)
           words == call.ret.val
       IN  /\ Len(words) = 4
           /\ \A i \in 0..3 : \A k \in 0..7 : Digit(words[i + 1], k) = bytes[8 * i + k + 1]
  /\ call.op = "iter_le_u64" => call.ret.val = to_le_u64(call.arg)
  /\ call.op = "to_le_u64" => call.ret.val = iter_le_u64(call.arg)

C10_Witness ==
  /\ call.op = "iter_le_u64"
  /\ call.arg = EMPTY_MUHASH
  /\ call.ret.val[1] = <<10, 15, 0, 44, 20, 179, 78, 84>>

=============================================================================
